---- MODULE Spec2Model ----
(***************************************************************************)
(* DynamicKey (src/cli.py): keystroke recorder, feature extractor and      *)
(* aggregate statistics.                                                   *)
(*                                                                         *)
(*   Spec      the session: the pynput listener thread running             *)
(*             on_press/on_release against the foreground round loop       *)
(*   SpecFeat  compute_round_features over bounded event sequences         *)
(*   SpecAgg   make_json_report over bounded sequences of RoundResults     *)
(*                                                                         *)
(* Time is counted in integer clock ticks.                                 *)
(***************************************************************************)
EXTENDS Integers, Sequences, FiniteSets, TLC

\* ---------------------------------------------------------------- bounds
MaxLen == 4
MaxTs == 1
AggMaxRounds == 2
AggMaxValues == 3
AggMaxVal == 1
MaxClock == 1
MaxCallbacks == 2

KeyIds == {"k1", "k2"}
Kinds == {"down", "up"}

\* ------------------------------------------------------- python helpers
None == << >>
Some(x) == << x >>

EmptyDict == [k \in {} |-> 0]
DictSet(d, k, v) == [x \in (DOMAIN d) \cup {k} |-> IF x = k THEN v ELSE d[x]]
DictDel(d, k) == [x \in (DOMAIN d) \ {k} |-> d[x]]
\* defaultdict(list): d[k].append(v)
ListDictAppend(d, k, v) ==
  [x \in (DOMAIN d) \cup {k} |->
     IF x = k THEN (IF k \in DOMAIN d THEN Append(d[k], v) ELSE << v >>)
     ELSE d[x]]
\* defaultdict(list): d[k].extend(vs)
ListDictExtend(d, k, vs) ==
  [x \in (DOMAIN d) \cup {k} |->
     IF x = k THEN (IF k \in DOMAIN d THEN d[k] \o vs ELSE vs)
     ELSE d[x]]

\* @dataclass KeyEvent
KeyEvent(kind, key_h, ts) == [event |-> kind, key_hash |-> key_h, timestamp |-> ts]

\* @dataclass RoundResult
RoundResult(idx, phrase, start, end, dur, ivs, kht) ==
  [ round_index |-> idx, phrase |-> phrase,
    start_time |-> start, end_time |-> end, duration |-> dur,
    inter_key_intervals |-> ivs, key_hold_times |-> kht ]

VARIABLES
  anonymize,        \* KeystrokeCapture.anonymize
  salt,             \* KeystrokeCapture.salt
  events,           \* KeystrokeCapture.events; each entry also carries
                    \* `born`, the round during which it was appended,
                    \* and `label`, the raw key name
  _down_timestamps,  \* KeystrokeCapture._down_timestamps
  l_pc,             \* listener thread: position inside on_press / on_release
  l_name,           \* listener thread: the local name
  l_key_h,          \* listener thread: the local key_h
  l_ts,             \* listener thread: the local ts
  l_running,        \* the pynput listener delivers callbacks
  n_callbacks,      \* callbacks delivered so far
  clock,            \* the last reading of time.perf_counter()
  pc,               \* foreground thread: position inside main
  round_idx,        \* main: round_idx
  start_time,       \* main: start_time
  end_time,         \* main: end_time
  round_events,     \* main: round_events
  all_rounds,       \* main: all_rounds
  report,           \* main: report
  a_rounds,    \* make_json_report: the argument `all_rounds`
  a_idx,       \* number of rounds the for loop has consumed
  a_pc,        \* "loop" | "done"
  a_loc,       \* the locals out["rounds"], all_intervals, aggregate_key_holds
  a_out,       \* the returned report, None before the return
  h_heap,      \* the list objects, by address: h_heap[a] is the content of list a
  h_input,     \* h_heap as it was before the first call
  h_rounds,    \* all_rounds whose list fields are addresses into h_heap
  h_run,       \* which call of make_json_report is running: 1 or 2
  h_idx,       \* number of rounds the running call has consumed
  h_pc,        \* "start" | "loop" | "done"
  h_loc,       \* the running call's locals; its lists are addresses
  h_out,       \* the reports returned so far
  f_events,    \* compute_round_features: the argument `events`
  f_idx,       \* number of events the for loop has consumed
  f_pc,        \* "loop" | "done"
  f_loc,       \* the locals key_hold_times, inter_key_intervals, last_down_ts, down_map
  f_ret        \* the returned pair, None before the return

featVars == << f_events, f_idx, f_pc, f_loc, f_ret >>
foldVars == << h_heap, h_input, h_rounds, h_run, h_idx, h_pc, h_loc, h_out >>
aggOnlyVars == << a_rounds, a_idx, a_pc, a_loc, a_out >>
aggVars == << aggOnlyVars, foldVars >>
capVars == << anonymize, salt, events, _down_timestamps >>
listenerVars == << l_pc, l_name, l_key_h, l_ts, l_running, n_callbacks >>
mainVars == << pc, round_idx, start_time, end_time, round_events, all_rounds, report >>
sessionVars == << capVars, listenerVars, mainVars, clock >>
vars == << sessionVars, featVars, aggVars >>

\* ------------------------------------------- compute_round_features
\* lines 96-99
InitLocals ==
  [ key_hold_times |-> EmptyDict,
    inter_key_intervals |-> << >>,
    last_down_ts |-> None,
    down_map |-> EmptyDict ]

\* a truthiness test in place of the comparison
IsDown_truthy(ev) == ev.event \in {"down", "up"}

\* line 102
IsDown(ev) == ev.event = "down"

\* line 107
MatchesOpenPress(ev, down_map) ==
  ev.event = "up" /\ ev.key_hash \in DOMAIN down_map

\* the subtraction with its operands swapped
IntervalsAfterDown_swapped(ivs, last, ev) ==
  IF last # None THEN Append(ivs, last[1] - ev.timestamp) ELSE ivs

\* lines 103-104
IntervalsAfterDown(ivs, last, ev) ==
  IF last # None THEN Append(ivs, ev.timestamp - last[1]) ELSE ivs

\* last_down_ts set by the first Down only
LastDownAfterDown_first(last, ev) == IF last # None THEN last ELSE Some(ev.timestamp)

\* line 105
LastDownAfterDown(last, ev) == Some(ev.timestamp)

\* setdefault in place of the assignment: the earlier press is kept
DownMapAfterDown_keepFirst(down_map, ev) ==
  IF ev.key_hash \in DOMAIN down_map THEN down_map
  ELSE DictSet(down_map, ev.key_hash, ev.timestamp)

\* line 106
DownMapAfterDown(down_map, ev) == DictSet(down_map, ev.key_hash, ev.timestamp)

\* line 108
HoldOf(ev, down_map) == ev.timestamp - down_map[ev.key_hash]

\* the test of line 109 left out
KeepHold_always(hold) == TRUE

\* line 109
KeepHold(hold) == hold >= 0

\* the del of line 111 left out
DownMapAfterUp_noDelete(down_map, ev) == down_map

\* line 111
DownMapAfterUp(down_map, ev) == DictDel(down_map, ev.key_hash)

\* lines 102-111: the body of the for loop
LoopBody(loc, ev) ==
  IF IsDown(ev) THEN
    [ loc EXCEPT
        !.inter_key_intervals = IntervalsAfterDown(@, loc.last_down_ts, ev),
        !.last_down_ts = LastDownAfterDown(@, ev),
        !.down_map = DownMapAfterDown(@, ev) ]
  ELSE IF MatchesOpenPress(ev, loc.down_map) THEN
    LET hold == HoldOf(ev, loc.down_map) IN
    [ loc EXCEPT
        !.key_hold_times =
            IF KeepHold(hold) THEN ListDictAppend(@, ev.key_hash, hold) ELSE @,
        !.down_map = DownMapAfterUp(@, ev) ]
  ELSE loc

\* line 113
ReturnOf(loc) == << loc.inter_key_intervals, loc.key_hold_times >>

RECURSIVE RunLoop(_, _, _)
RunLoop(loc, evs, i) ==
  IF i > Len(evs) THEN loc ELSE RunLoop(LoopBody(loc, evs[i]), evs, i + 1)

\* lines 95-113 as one call
compute_round_features(evs) == ReturnOf(RunLoop(InitLocals, evs, 1))

\* ------------------------------------------------- make_json_report
\* Rationals are pairs << numerator, denominator >> in lowest terms.
RECURSIVE GCD(_, _)
GCD(a, b) == IF b = 0 THEN a ELSE GCD(b, a % b)
Frac(n, d) == LET g == GCD(n, d) IN << n \div g, d \div g >>

RECURSIVE SumSeq(_)
SumSeq(lst) == IF lst = << >> THEN 0 ELSE Head(lst) + SumSeq(Tail(lst))
RECURSIVE SumSquares(_)
SumSquares(lst) ==
  IF lst = << >> THEN 0 ELSE Head(lst) * Head(lst) + SumSquares(Tail(lst))

\* statistics.mean, on a non-empty list
mean(lst) == Frac(SumSeq(lst), Len(lst))

\* the square root of a rational, kept symbolic
Sqrt(q) == [ sqrt_of |-> q ]

\* statistics.pstdev: the root of the population variance (divisor n)
pstdev(lst) ==
  LET n == Len(lst) IN
  Sqrt(Frac(n * SumSquares(lst) - SumSeq(lst) * SumSeq(lst), n * n))

\* the float literal 0.0 of line 133
ZeroStdev == Sqrt(Frac(0, 1))

\* builtin min / max
min(lst) == CHOOSE x \in { lst[i] : i \in 1..Len(lst) } :
               \A i \in 1..Len(lst) : x <= lst[i]
max(lst) == CHOOSE x \in { lst[i] : i \in 1..Len(lst) } :
               \A i \in 1..Len(lst) : x >= lst[i]

\* the empty case answered with a full record of zeros
summarize_list_zeros(lst) ==
  IF lst = << >>
  THEN [ count |-> 0, mean |-> Frac(0, 1), stdev |-> ZeroStdev, min |-> 0, max |-> 0 ]
  ELSE [ count |-> Len(lst),
         mean |-> mean(lst),
         stdev |-> IF Len(lst) > 1 THEN pstdev(lst) ELSE ZeroStdev,
         min |-> min(lst),
         max |-> max(lst) ]

\* lines 127-136
summarize_list(lst) ==
  IF lst = << >>
  THEN [ count |-> 0 ]
  ELSE [ count |-> Len(lst),
         mean |-> mean(lst),
         stdev |-> IF Len(lst) > 1 THEN pstdev(lst) ELSE ZeroStdev,
         min |-> min(lst),
         max |-> max(lst) ]

\* dataclasses.asdict: a dict with one entry per field
asdict(r) ==
  [ round_index |-> r.round_index, phrase |-> r.phrase,
    start_time |-> r.start_time, end_time |-> r.end_time,
    duration |-> r.duration,
    inter_key_intervals |-> r.inter_key_intervals,
    key_hold_times |-> r.key_hold_times ]

\* lines 117-119
InitAggLocals ==
  [ rounds |-> << >>, all_intervals |-> << >>, aggregate_key_holds |-> EmptyDict ]

\* assignment in place of extend: the key's earlier rounds are lost
HoldsAfterRound_assign(agg, kht) ==
  [ k \in (DOMAIN agg) \cup (DOMAIN kht) |->
      IF k \in DOMAIN kht THEN kht[k] ELSE agg[k] ]

\* lines 124-125: the inner loop over r.key_hold_times.items()
HoldsAfterRound(agg, kht) ==
  [ k \in (DOMAIN agg) \cup (DOMAIN kht) |->
      IF k \in DOMAIN kht THEN ListDictExtend(agg, k, kht[k])[k] ELSE agg[k] ]

\* lines 122-125: the body of the loop over all_rounds
AggLoopBody(loc, r) ==
  [ rounds |-> Append(loc.rounds, asdict(r)),
    all_intervals |-> loc.all_intervals \o r.inter_key_intervals,
    aggregate_key_holds |-> HoldsAfterRound(loc.aggregate_key_holds, r.key_hold_times) ]

\* lines 138-141
AggregateOf(loc) ==
  [ inter_key_intervals |-> summarize_list(loc.all_intervals),
    key_hold_times |->
      [ k \in DOMAIN loc.aggregate_key_holds |->
          summarize_list(loc.aggregate_key_holds[k]) ] ]

\* lines 117, 138-142
ReportOf(loc, metadata) ==
  [ metadata |-> metadata, rounds |-> loc.rounds, aggregate |-> AggregateOf(loc) ]

RECURSIVE RunAggLoop(_, _, _)
RunAggLoop(loc, rounds, i) ==
  IF i > Len(rounds) THEN loc
  ELSE RunAggLoop(AggLoopBody(loc, rounds[i]), rounds, i + 1)

\* lines 116-142 as one call
make_json_report(rounds, metadata) ==
  ReportOf(RunAggLoop(InitAggLocals, rounds, 1), metadata)

\* ------------------------------------------------------------ session
NumRounds == 2
KeyNames == {"a", "b"}
Salts == {"s1"}
Phrase == "the quick brown fox"
Metadata == [ phrase |-> Phrase ]

\* hashlib.sha256(...).hexdigest(): an injective image of its input
sha256_hexdigest(text) == "sha256(" \o text \o ")"

\* a _hash_key that hashes whatever the anonymize flag says
_hash_key_always(anon, slt, key_name) == sha256_hexdigest(slt \o "::" \o key_name)

\* lines 68-73
_hash_key(anon, slt, key_name) ==
  IF ~anon THEN key_name ELSE sha256_hexdigest(slt \o "::" \o key_name)

\* an entry of cap.events; `label` is the raw key name it was made from
BufferedEvent(kind, key_h, ts, round, label) ==
  [ event |-> kind, key_hash |-> key_h, timestamp |-> ts, born |-> round,
    label |-> label ]

\* an insertion at the front of the list
events_append_front(evs, ev) == << ev >> \o evs

\* lines 79, 86: self.events.append(...)
events_append(evs, ev) == Append(evs, ev)

\* a clear() that empties only the bookkeeping
events_clear_kept(evs) == evs

\* line 91
events_clear(evs) == << >>

\* line 92
down_timestamps_clear(d) == EmptyDict

SessionIdle ==
  /\ anonymize = TRUE /\ salt = "" /\ events = << >> /\ _down_timestamps = EmptyDict
  /\ l_pc = "idle" /\ l_name = None /\ l_key_h = None /\ l_ts = None /\ l_running = FALSE
  /\ n_callbacks = 0 /\ clock = 0
  /\ pc = "idle" /\ round_idx = 0 /\ start_time = None /\ end_time = None
  /\ round_events = None /\ all_rounds = << >> /\ report = None

\* ------------------------------------------------------------ SpecFeat
FeatIdle ==
  /\ f_events = << >> /\ f_idx = 0 /\ f_pc = "idle"
  /\ f_loc = InitLocals /\ f_ret = None

FoldIdle ==
  /\ h_heap = << >> /\ h_input = << >> /\ h_rounds = << >> /\ h_run = 0
  /\ h_idx = 0 /\ h_pc = "idle" /\ h_loc = None /\ h_out = << >>

AggOnlyIdle ==
  /\ a_rounds = << >> /\ a_idx = 0 /\ a_pc = "idle"
  /\ a_loc = InitAggLocals /\ a_out = None

AggIdle == AggOnlyIdle /\ FoldIdle

EventInputs == [event : Kinds, key_hash : KeyIds, timestamp : 0..MaxTs]

RECURSIVE SeqsUpTo(_, _)
SeqsUpTo(S, n) ==
  IF n = 0 THEN { << >> }
  ELSE LET shorter == SeqsUpTo(S, n - 1) IN
       shorter \cup { Append(s, x) : s \in { t \in shorter : Len(t) = n - 1 }, x \in S }

InitFeat ==
  /\ f_events \in SeqsUpTo(EventInputs, MaxLen)
  /\ f_idx = 0
  /\ f_pc = "loop"
  /\ f_loc = InitLocals
  /\ f_ret = None
  /\ AggIdle /\ SessionIdle

NextEvent == f_events[f_idx + 1]

Iterate ==
  /\ f_idx' = f_idx + 1
  /\ f_loc' = LoopBody(f_loc, NextEvent)
  /\ UNCHANGED << f_events, f_pc, f_ret >>
  /\ UNCHANGED << aggVars, sessionVars >>

\* a "down" event: lines 102-106
FeatDown ==
  /\ f_pc = "loop" /\ f_idx < Len(f_events)
  /\ IsDown(NextEvent)
  /\ Iterate

\* an "up" event with an open press: lines 107-111
FeatUp ==
  /\ f_pc = "loop" /\ f_idx < Len(f_events)
  /\ ~IsDown(NextEvent) /\ MatchesOpenPress(NextEvent, f_loc.down_map)
  /\ Iterate

\* an "up" event without an open press: neither branch is taken
FeatIgnore ==
  /\ f_pc = "loop" /\ f_idx < Len(f_events)
  /\ ~IsDown(NextEvent) /\ ~MatchesOpenPress(NextEvent, f_loc.down_map)
  /\ Iterate

\* line 113
FeatReturn ==
  /\ f_pc = "loop" /\ f_idx = Len(f_events)
  /\ f_pc' = "done"
  /\ f_ret' = Some(ReturnOf(f_loc))
  /\ UNCHANGED << f_events, f_idx, f_loc >>
  /\ UNCHANGED << aggVars, sessionVars >>

NextFeat == FeatDown \/ FeatUp \/ FeatIgnore \/ FeatReturn

SpecFeat == InitFeat /\ [][NextFeat]_vars

\* ------------------------------------------------------------- SpecAgg

\* lists of exactly n values, in ticks
ListsOfLen(n) == { l \in SeqsUpTo(0..AggMaxVal, n) : Len(l) = n }

RECURSIVE TotalLen(_, _)
\* the number of values held by the lists of kht for the keys of D
TotalLen(kht, D) ==
  IF D = {} THEN 0
  ELSE LET k == CHOOSE x \in D : TRUE IN Len(kht[k]) + TotalLen(kht, D \ {k})

\* key_hold_times with c values in all: a key is present only with a
\* non-empty list
HoldDictsWith(c) ==
  { kht \in UNION { [ D -> SeqsUpTo(0..AggMaxVal, c) \ { << >> } ] : D \in SUBSET KeyIds } :
      TotalLen(kht, DOMAIN kht) = c }

\* the features of a round that holds m values in all
FeaturesWith(m) ==
  UNION { { << ivs, kht >> : ivs \in ListsOfLen(a), kht \in HoldDictsWith(m - a) } :
            a \in 0..m }

RECURSIVE RoundSeqs(_, _)
\* the sequences of r RoundResults that hold n values in all
RoundSeqs(r, n) ==
  IF r = 0 THEN (IF n = 0 THEN { << >> } ELSE {})
  ELSE UNION { { Append(s, RoundResult(r, Phrase, 0, 0, 0, f[1], f[2])) :
                   s \in RoundSeqs(r - 1, n - m), f \in FeaturesWith(m) } :
               m \in 0..n }

InitAgg ==
  /\ a_rounds \in UNION { RoundSeqs(r, n) : r \in 0..AggMaxRounds, n \in 0..AggMaxValues }
  /\ a_idx = 0
  /\ a_pc = "loop"
  /\ a_loc = InitAggLocals
  /\ a_out = None
  /\ FeatIdle /\ SessionIdle /\ FoldIdle

\* lines 121-125: one round folded into the locals
AggRound ==
  /\ a_pc = "loop" /\ a_idx < Len(a_rounds)
  /\ a_idx' = a_idx + 1
  /\ a_loc' = AggLoopBody(a_loc, a_rounds[a_idx + 1])
  /\ UNCHANGED << a_rounds, a_pc, a_out >>
  /\ UNCHANGED << featVars, sessionVars, foldVars >>

\* lines 138-142
AggReturn ==
  /\ a_pc = "loop" /\ a_idx = Len(a_rounds)
  /\ a_pc' = "done"
  /\ a_out' = Some(ReportOf(a_loc, Metadata))
  /\ UNCHANGED << a_rounds, a_idx, a_loc >>
  /\ UNCHANGED << featVars, sessionVars, foldVars >>

NextAgg == AggRound \/ AggReturn

SpecAgg == InitAgg /\ [][NextAgg]_vars

\* ------------------------------------------------------------ SpecFold
\* make_json_report called twice on the same RoundResult objects. Python
\* lists are objects: a RoundResult's inter_key_intervals and the values of
\* its key_hold_times are addresses into h_heap, and so are the call's own
\* all_intervals and the values of aggregate_key_holds.

RECURSIVE StoreLists(_, _, _)
\* the lists of kht for the keys of D put on the heap; the addresses by key
StoreLists(st, kht, D) ==
  IF D = {} THEN st
  ELSE LET k == CHOOSE x \in D : TRUE IN
       StoreLists([ heap |-> Append(st.heap, kht[k]),
                    refs |-> DictSet(st.refs, k, Len(st.heap) + 1) ],
                  kht, D \ {k})

RECURSIVE LoadRounds(_, _, _)
\* the RoundResults rs[i..] as objects on the heap
LoadRounds(acc, rs, i) ==
  IF i > Len(rs) THEN acc
  ELSE LET r == rs[i]
           h1 == Append(acc.heap, r.inter_key_intervals)
           st == StoreLists([ heap |-> h1, refs |-> EmptyDict ],
                            r.key_hold_times, DOMAIN r.key_hold_times)
       IN LoadRounds([ heap |-> st.heap,
                       rounds |-> Append(acc.rounds,
                          [ r EXCEPT !.inter_key_intervals = Len(h1),
                                     !.key_hold_times = st.refs ]) ],
                     rs, i + 1)

\* dataclasses.asdict copies every list it meets
asdict_deep(heap, r) ==
  [ round_index |-> r.round_index, phrase |-> r.phrase,
    start_time |-> r.start_time, end_time |-> r.end_time,
    duration |-> r.duration,
    inter_key_intervals |-> heap[r.inter_key_intervals],
    key_hold_times |-> [ k \in DOMAIN r.key_hold_times |-> heap[r.key_hold_times[k]] ] ]

\* the round's own list taken as the aggregate's list for a new key
ExtendKey_alias(st, k, src) ==
  IF k \in DOMAIN st.agg
  THEN [ st EXCEPT !.heap[st.agg[k]] = @ \o st.heap[src] ]
  ELSE [ heap |-> st.heap, agg |-> DictSet(st.agg, k, src) ]

\* line 125: aggregate_key_holds[k].extend(holds); the defaultdict makes a
\* new empty list for a key it does not hold yet
ExtendKey(st, k, src) ==
  IF k \in DOMAIN st.agg
  THEN [ st EXCEPT !.heap[st.agg[k]] = @ \o st.heap[src] ]
  ELSE [ heap |-> Append(st.heap, << >> \o st.heap[src]),
         agg |-> DictSet(st.agg, k, Len(st.heap) + 1) ]

RECURSIVE ExtendKeys(_, _, _)
\* lines 124-125: the loop over r.key_hold_times.items()
ExtendKeys(st, kht, D) ==
  IF D = {} THEN st
  ELSE LET k == CHOOSE x \in D : TRUE IN
       ExtendKeys(ExtendKey(st, k, kht[k]), kht, D \ {k})

InitFold ==
  /\ \E rs \in UNION { RoundSeqs(r, n) : r \in 0..AggMaxRounds, n \in 0..AggMaxValues } :
        LET ld == LoadRounds([ heap |-> << >>, rounds |-> << >> ], rs, 1) IN
        /\ h_heap = ld.heap
        /\ h_input = ld.heap
        /\ h_rounds = ld.rounds
  /\ h_run = 1
  /\ h_idx = 0
  /\ h_pc = "start"
  /\ h_loc = None
  /\ h_out = << >>
  /\ FeatIdle /\ SessionIdle /\ AggOnlyIdle

\* lines 117-119: the call's own lists are new objects
FoldStart ==
  /\ h_pc = "start"
  /\ h_heap' = Append(h_heap, << >>)
  /\ h_loc' = Some([ rounds |-> << >>,
                     all_intervals |-> Len(h_heap) + 1,
                     aggregate_key_holds |-> EmptyDict ])
  /\ h_idx' = 0
  /\ h_pc' = "loop"
  /\ UNCHANGED << h_input, h_rounds, h_run, h_out >>
  /\ UNCHANGED << aggOnlyVars, featVars, sessionVars >>

\* lines 121-125: one round folded into the call's lists
FoldRound ==
  /\ h_pc = "loop" /\ h_idx < Len(h_rounds)
  /\ LET r == h_rounds[h_idx + 1]
         loc == h_loc[1]
         h1 == [ h_heap EXCEPT ![loc.all_intervals] = @ \o h_heap[r.inter_key_intervals] ]
         st == ExtendKeys([ heap |-> h1, agg |-> loc.aggregate_key_holds ],
                          r.key_hold_times, DOMAIN r.key_hold_times)
     IN /\ h_heap' = st.heap
        /\ h_loc' = Some([ rounds |-> Append(loc.rounds, asdict_deep(h_heap, r)),
                           all_intervals |-> loc.all_intervals,
                           aggregate_key_holds |-> st.agg ])
  /\ h_idx' = h_idx + 1
  /\ UNCHANGED << h_input, h_rounds, h_run, h_pc, h_out >>
  /\ UNCHANGED << aggOnlyVars, featVars, sessionVars >>

\* lines 138-142; the first call is followed by a second
FoldReturn ==
  /\ h_pc = "loop" /\ h_idx = Len(h_rounds)
  /\ LET loc == h_loc[1] IN
     h_out' = Append(h_out,
       [ metadata |-> Metadata,
         rounds |-> loc.rounds,
         aggregate |->
           [ inter_key_intervals |-> summarize_list(h_heap[loc.all_intervals]),
             key_hold_times |->
               [ k \in DOMAIN loc.aggregate_key_holds |->
                   summarize_list(h_heap[loc.aggregate_key_holds[k]]) ] ] ])
  /\ IF h_run = 1
     THEN h_run' = 2 /\ h_pc' = "start"
     ELSE UNCHANGED h_run /\ h_pc' = "done"
  /\ UNCHANGED << h_heap, h_input, h_rounds, h_idx, h_loc >>
  /\ UNCHANGED << aggOnlyVars, featVars, sessionVars >>

NextFold == FoldStart \/ FoldRound \/ FoldReturn

SpecFold == InitFold /\ [][NextFold]_vars

\* ---------------------------------------------------------------- Spec
\* lines 246-262: cap is constructed and the listener started
Init ==
  /\ anonymize \in BOOLEAN
  /\ salt \in (IF anonymize THEN Salts ELSE { "" })
  /\ events = << >>
  /\ _down_timestamps = EmptyDict
  /\ l_pc = "idle" /\ l_name = None /\ l_key_h = None /\ l_ts = None
  /\ l_running = TRUE
  /\ n_callbacks = 0
  /\ clock = 0
  /\ pc = "wait_start"
  /\ round_idx = 1
  /\ start_time = None /\ end_time = None /\ round_events = None
  /\ all_rounds = << >>
  /\ report = None
  /\ FeatIdle /\ AggIdle

\* time.perf_counter(): a reading never below the one before
Readings == clock..MaxClock

\* ---- listener thread
\* lines 76-78
PressBegin ==
  /\ l_running /\ l_pc = "idle" /\ n_callbacks < MaxCallbacks
  /\ \E name \in KeyNames, t \in Readings :
        /\ l_name' = Some(name)
        /\ l_key_h' = Some(_hash_key(anonymize, salt, name))
        /\ l_ts' = Some(t)
        /\ clock' = t
  /\ l_pc' = "press_append"
  /\ n_callbacks' = n_callbacks + 1
  /\ UNCHANGED << capVars, l_running, mainVars, featVars, aggVars >>

\* line 79
PressAppend ==
  /\ l_pc = "press_append"
  /\ events' = events_append(events, BufferedEvent("down", l_key_h[1], l_ts[1], round_idx,
                                            l_name[1]))
  /\ l_pc' = "press_update"
  /\ UNCHANGED << anonymize, salt, _down_timestamps, l_name, l_key_h, l_ts, l_running,
                  n_callbacks, clock, mainVars, featVars, aggVars >>

\* line 80
PressUpdate ==
  /\ l_pc = "press_update"
  /\ _down_timestamps' = DictSet(_down_timestamps, l_key_h[1], l_ts[1])
  /\ l_pc' = "idle" /\ l_name' = None /\ l_key_h' = None /\ l_ts' = None
  /\ UNCHANGED << anonymize, salt, events, l_running, n_callbacks, clock,
                  mainVars, featVars, aggVars >>

\* lines 83-85
ReleaseBegin ==
  /\ l_running /\ l_pc = "idle" /\ n_callbacks < MaxCallbacks
  /\ \E name \in KeyNames, t \in Readings :
        /\ l_name' = Some(name)
        /\ l_key_h' = Some(_hash_key(anonymize, salt, name))
        /\ l_ts' = Some(t)
        /\ clock' = t
  /\ l_pc' = "release_append"
  /\ n_callbacks' = n_callbacks + 1
  /\ UNCHANGED << capVars, l_running, mainVars, featVars, aggVars >>

\* line 86
ReleaseAppend ==
  /\ l_pc = "release_append"
  /\ events' = events_append(events, BufferedEvent("up", l_key_h[1], l_ts[1], round_idx,
                                            l_name[1]))
  /\ l_pc' = "release_check"
  /\ UNCHANGED << anonymize, salt, _down_timestamps, l_name, l_key_h, l_ts, l_running,
                  n_callbacks, clock, mainVars, featVars, aggVars >>

\* line 87
ReleaseCheck ==
  /\ l_pc = "release_check"
  /\ IF l_key_h[1] \in DOMAIN _down_timestamps
     THEN l_pc' = "release_del" /\ UNCHANGED << l_name, l_key_h, l_ts >>
     ELSE l_pc' = "idle" /\ l_name' = None /\ l_key_h' = None /\ l_ts' = None
  /\ UNCHANGED << capVars, l_running, n_callbacks, clock, mainVars, featVars, aggVars >>

\* line 88; del of a key that is no longer there raises KeyError, which
\* ends the listener thread
ReleaseDel ==
  /\ l_pc = "release_del"
  /\ IF l_key_h[1] \in DOMAIN _down_timestamps
     THEN /\ _down_timestamps' = DictDel(_down_timestamps, l_key_h[1])
          /\ l_pc' = "idle"
     ELSE /\ UNCHANGED _down_timestamps
          /\ l_pc' = "crashed"
  /\ l_name' = None /\ l_key_h' = None /\ l_ts' = None
  /\ UNCHANGED << anonymize, salt, events, l_running, n_callbacks, clock,
                  mainVars, featVars, aggVars >>

\* ---- foreground thread
InTry == pc \in { "wait_start", "clear_events", "clear_down", "start", "typing",
                  "copy" }

\* line 266: input() returns
StartRound ==
  /\ pc = "wait_start"
  /\ pc' = "clear_events"
  /\ UNCHANGED << capVars, listenerVars, clock, round_idx, start_time, end_time,
                  round_events, all_rounds, report, featVars, aggVars >>

\* lines 267, 91
ClearEvents ==
  /\ pc = "clear_events"
  /\ events' = events_clear(events)
  /\ pc' = "clear_down"
  /\ UNCHANGED << anonymize, salt, _down_timestamps, listenerVars, clock, round_idx,
                  start_time, end_time, round_events, all_rounds, report,
                  featVars, aggVars >>

\* line 92
ClearDown ==
  /\ pc = "clear_down"
  /\ _down_timestamps' = down_timestamps_clear(_down_timestamps)
  /\ pc' = "start"
  /\ UNCHANGED << anonymize, salt, events, listenerVars, clock, round_idx,
                  start_time, end_time, round_events, all_rounds, report,
                  featVars, aggVars >>

\* lines 268-269
MarkStart ==
  /\ pc = "start"
  /\ \E t \in Readings : start_time' = Some(t) /\ clock' = t
  /\ pc' = "typing"
  /\ UNCHANGED << capVars, listenerVars, round_idx, end_time, round_events,
                  all_rounds, report, featVars, aggVars >>

\* lines 270-271: input() returns, then the clock is read
MarkEnd ==
  /\ pc = "typing"
  /\ \E t \in Readings : end_time' = Some(t) /\ clock' = t
  /\ pc' = "copy"
  /\ UNCHANGED << capVars, listenerVars, round_idx, start_time, round_events,
                  all_rounds, report, featVars, aggVars >>

\* a session that keeps only its latest RoundResult slot
all_rounds_append_overwrite(rounds, r) ==
  IF rounds = << >> THEN << r >> ELSE [ rounds EXCEPT ![Len(rounds)] = r ]

\* line 286
all_rounds_append(rounds, r) == Append(rounds, r)

\* the subtraction the other way round
duration_swapped(start, end) == start - end

\* line 274
duration(start, end) == end - start

\* lines 273-287 and the loop header of line 265: the buffer is copied,
\* and the rest works on the copy and on locals only
FinishRound ==
  /\ pc = "copy"
  /\ round_events' = Some(events)
  /\ LET feats == compute_round_features(events)
     IN all_rounds' = all_rounds_append(all_rounds,
           RoundResult(round_idx, Phrase, start_time[1], end_time[1],
                       duration(start_time[1], end_time[1]),
                       feats[1], feats[2]))
  /\ IF round_idx < NumRounds
     THEN round_idx' = round_idx + 1 /\ pc' = "wait_start"
     ELSE UNCHANGED round_idx /\ pc' = "finally"
  /\ UNCHANGED << capVars, listenerVars, clock, start_time, end_time,
                  report, featVars, aggVars >>

\* an except clause without the finally: the interrupted path goes on to
\* the report with the listener still running
Interrupt_noFinally ==
  /\ InTry
  /\ pc' = "report"
  /\ UNCHANGED << capVars, listenerVars, clock, round_idx, start_time, end_time,
                  round_events, all_rounds, report, featVars, aggVars >>

\* lines 288-289: KeyboardInterrupt anywhere inside the try block
Interrupt ==
  /\ InTry
  /\ pc' = "finally"
  /\ UNCHANGED << capVars, listenerVars, clock, round_idx, start_time, end_time,
                  round_events, all_rounds, report, featVars, aggVars >>

\* lines 290-291: listener.stop(); a callback already running finishes
StopListener ==
  /\ pc = "finally"
  /\ l_running' = FALSE
  /\ pc' = "report"
  /\ UNCHANGED << capVars, l_pc, l_name, l_key_h, l_ts, n_callbacks, clock, round_idx,
                  start_time, end_time, round_events, all_rounds, report,
                  featVars, aggVars >>

\* lines 294-297
WriteReport ==
  /\ pc = "report"
  /\ report' = Some(make_json_report(all_rounds, Metadata))
  /\ pc' = "done"
  /\ UNCHANGED << capVars, listenerVars, clock, round_idx, start_time, end_time,
                  round_events, all_rounds, featVars, aggVars >>

Next ==
  \/ PressBegin \/ PressAppend \/ PressUpdate
  \/ ReleaseBegin \/ ReleaseAppend \/ ReleaseCheck \/ ReleaseDel
  \/ StartRound \/ ClearEvents \/ ClearDown \/ MarkStart \/ MarkEnd
  \/ FinishRound \/ Interrupt \/ StopListener \/ WriteReport

Spec == Init /\ [][Next]_vars

\* Lines 290-297 neither block nor wait: once the try block is left, the
\* foreground thread runs the finally clause and writes the report.
SpecFair == Spec /\ WF_vars(StopListener) /\ WF_vars(WriteReport)

\* ------------------------------------------- reference definitions
\* (stated on the event sequence alone, independent of the loop's locals)
Prefix == SubSeq(f_events, 1, f_idx)
Before(s, i) == SubSeq(s, 1, i - 1)

Max(S) == CHOOSE x \in S : \A y \in S : y <= x

\* index of the last event of key k in s, 0 if there is none
LastIdxOf(s, k) ==
  LET I == { i \in 1..Len(s) : s[i].key_hash = k } IN
  IF I = {} THEN 0 ELSE Max(I)

\* the open press of key k after s: the timestamp of the most recent Down
\* of k with no Up of k after it
OpenPress(s, k) ==
  LET j == LastIdxOf(s, k) IN
  IF j > 0 /\ s[j].event = "down" THEN Some(s[j].timestamp) ELSE None

DownIdx(s) == { i \in 1..Len(s) : s[i].event = "down" }
NthDown(s, n) == CHOOSE i \in DownIdx(s) : Cardinality({ j \in DownIdx(s) : j <= i }) = n

ExpectedIntervals(s) ==
  LET d == Cardinality(DownIdx(s)) IN
  [ i \in 1..(IF d = 0 THEN 0 ELSE d - 1) |->
      s[NthDown(s, i + 1)].timestamp - s[NthDown(s, i)].timestamp ]

RECURSIVE ExpectedHolds(_, _, _)
ExpectedHolds(s, k, i) ==
  IF i = 0 THEN << >>
  ELSE LET rest == ExpectedHolds(s, k, i - 1)
           op == OpenPress(Before(s, i), k)
       IN IF s[i].event = "up" /\ s[i].key_hash = k /\ op # None
             /\ s[i].timestamp - op[1] >= 0
          THEN Append(rest, s[i].timestamp - op[1])
          ELSE rest

AllNonNeg(list) == \A i \in 1..Len(list) : list[i] >= 0
HoldsNonNeg(kht) == \A k \in DOMAIN kht : AllNonNeg(kht[k])

\* the event the loop has just consumed is an Up that is earlier than its
\* matching Down
EarlyUpAt(s, i) ==
  /\ s[i].event = "up"
  /\ OpenPress(Before(s, i), s[i].key_hash) # None
  /\ s[i].timestamp < OpenPress(Before(s, i), s[i].key_hash)[1]

\* C3: every value of key_hold_times is >= 0 for every event sequence,
\* ordered or not; an Up earlier than its matching Down adds no hold value
\* and its open press is removed.
C3_HoldsNonNegative ==
  /\ [](HoldsNonNeg(f_loc.key_hold_times)
        /\ (f_ret # None => HoldsNonNeg(f_ret[1][2])))
  /\ [][ (f_idx' = f_idx + 1 /\ EarlyUpAt(f_events, f_idx + 1)) =>
           /\ f_loc'.key_hold_times = f_loc.key_hold_times
           /\ f_events[f_idx + 1].key_hash \in DOMAIN f_loc.down_map
           /\ f_events[f_idx + 1].key_hash \notin DOMAIN f_loc'.down_map ]_vars

C3_Witness ==
  /\ f_pc = "done"
  /\ \E i \in 1..Len(f_events) : EarlyUpAt(f_events, i)
  /\ f_ret[1][2] # EmptyDict

\* C4 as claimed: every inter-key interval is >= 0 for every event sequence.
C4_IntervalsNonNegative_AnySequence ==
  /\ AllNonNeg(f_loc.inter_key_intervals)
  /\ (f_ret # None => AllNonNeg(f_ret[1][1]))

DownsNonDecreasing(s) ==
  \A i, j \in DownIdx(s) : i < j => s[i].timestamp <= s[j].timestamp

\* C4 (amended): for every event sequence whose Down events are in
\* non-decreasing timestamp order, every inter-key interval is >= 0.
C4_IntervalsNonNegative_Ordered ==
  DownsNonDecreasing(f_events) =>
     /\ AllNonNeg(f_loc.inter_key_intervals)
     /\ (f_ret # None => AllNonNeg(f_ret[1][1]))

C4_Witness ==
  /\ f_pc = "done"
  /\ DownsNonDecreasing(f_events)
  /\ Len(f_ret[1][1]) >= 2
  /\ \E i \in 1..Len(f_ret[1][1]) : f_ret[1][1][i] > 0

\* C5: inter_key_intervals has max(0, d-1) entries for d Down events, the
\* i-th being the (i+1)-th Down's timestamp minus the i-th Down's, whatever
\* the keys and whatever Up events lie between.
C5_IntervalsAreConsecutiveDownGaps ==
  /\ f_loc.inter_key_intervals = ExpectedIntervals(Prefix)
  /\ Len(f_loc.inter_key_intervals) =
       (IF DownIdx(Prefix) = {} THEN 0 ELSE Cardinality(DownIdx(Prefix)) - 1)
  /\ (f_ret # None => f_ret[1][1] = ExpectedIntervals(f_events))

\* two Downs of different keys with an Up between them
C5_Witness ==
  /\ f_pc = "done"
  /\ \E i, j, u \in 1..Len(f_events) :
        /\ i < u /\ u < j
        /\ f_events[i].event = "down" /\ f_events[j].event = "down"
        /\ f_events[u].event = "up"
        /\ f_events[i].key_hash # f_events[j].key_hash
        /\ f_events[j].timestamp # f_events[i].timestamp
  /\ Len(f_ret[1][1]) >= 1

\* C6: each hold emitted for an Up of key k at time t is t minus the
\* timestamp of the most recent preceding Down of k with no Up of k in
\* between; a second Down without an intervening Up replaces the first.
C6_HoldUsesLatestDown ==
  /\ \A k \in KeyIds :
       IF ExpectedHolds(Prefix, k, f_idx) = << >>
       THEN k \notin DOMAIN f_loc.key_hold_times
       ELSE /\ k \in DOMAIN f_loc.key_hold_times
            /\ f_loc.key_hold_times[k] = ExpectedHolds(Prefix, k, f_idx)
  /\ DOMAIN f_loc.key_hold_times \subseteq KeyIds

\* Down(k,t0), Down(k,t1), Up(k,t2) with t0 # t1 has been processed
C6_Witness ==
  /\ f_pc = "done"
  /\ \E a, b, c \in 1..Len(f_events) :
        /\ a < b /\ b < c
        /\ f_events[a].event = "down" /\ f_events[b].event = "down"
        /\ f_events[c].event = "up"
        /\ f_events[a].key_hash = f_events[b].key_hash
        /\ f_events[b].key_hash = f_events[c].key_hash
        /\ LastIdxOf(Before(f_events, c), f_events[c].key_hash) = b
        /\ \A m \in (a + 1)..(b - 1) : f_events[m].key_hash # f_events[a].key_hash
        /\ f_events[a].timestamp < f_events[b].timestamp
        /\ f_events[b].timestamp <= f_events[c].timestamp
  /\ f_ret[1][2] # EmptyDict

UnmatchedUpAt(s, i) ==
  s[i].event = "up" /\ OpenPress(Before(s, i), s[i].key_hash) = None

\* C7: an Up for a key with no open press is ignored: the loop's locals
\* are all unchanged by it, and a buffer of only such Ups returns two
\* empty outputs.
C7_UnmatchedUpIgnored ==
  /\ [][ (f_idx' = f_idx + 1 /\ UnmatchedUpAt(f_events, f_idx + 1)) =>
           f_loc' = f_loc ]_vars
  /\ []( (f_ret # None /\ \A i \in 1..Len(f_events) : UnmatchedUpAt(f_events, i))
           => f_ret[1] = << << >>, EmptyDict >> )

\* an Up of an already released key, after which a further Down follows
C7_Witness ==
  /\ f_pc = "done"
  /\ \E i \in 2..Len(f_events) :
        /\ UnmatchedUpAt(f_events, i)
        /\ LastIdxOf(Before(f_events, i), f_events[i].key_hash) > 0
        /\ i < Len(f_events)
  /\ f_ret[1][2] # EmptyDict

CountOf(s, kind, k) ==
  Cardinality({ i \in 1..Len(s) : s[i].event = kind /\ s[i].key_hash = k })

\* the Downs of k whose next event of key k is an Up
PairedDowns(s, k) ==
  { i \in 1..Len(s) :
      /\ s[i].event = "down" /\ s[i].key_hash = k
      /\ \E j \in (i + 1)..Len(s) :
            /\ s[j].event = "up" /\ s[j].key_hash = k
            /\ \A m \in (i + 1)..(j - 1) : s[m].key_hash # k }

HoldCount(kht, k) == IF k \in DOMAIN kht THEN Len(kht[k]) ELSE 0

\* C8: a Down never followed by an Up of its key contributes no hold: the
\* holds recorded for k number at most the Ups of k, at most the Downs of
\* k, and at most the Downs of k that are paired with an Up.
C8_UnmatchedDownContributesNothing ==
  /\ \A k \in KeyIds :
       /\ HoldCount(f_loc.key_hold_times, k) <= CountOf(Prefix, "up", k)
       /\ HoldCount(f_loc.key_hold_times, k) <= CountOf(Prefix, "down", k)
       /\ HoldCount(f_loc.key_hold_times, k) <= Cardinality(PairedDowns(Prefix, k))
  /\ (f_ret # None =>
        \A k \in KeyIds :
           HoldCount(f_ret[1][2], k) <= Cardinality(PairedDowns(f_events, k)))

\* a key with a recorded hold whose last Down is still open at the return
C8_Witness ==
  /\ f_pc = "done"
  /\ \E k \in KeyIds :
        /\ OpenPress(f_events, k) # None
        /\ k \in DOMAIN f_ret[1][2]
        /\ CountOf(f_events, "down", k) > HoldCount(f_ret[1][2], k)

\* ------------------------------------- reference definitions (SpecAgg)
RECURSIVE ConcatIntervals(_)
ConcatIntervals(rounds) ==
  IF rounds = << >> THEN << >>
  ELSE Head(rounds).inter_key_intervals \o ConcatIntervals(Tail(rounds))

RECURSIVE ConcatHolds(_, _)
ConcatHolds(rounds, k) ==
  IF rounds = << >> THEN << >>
  ELSE (IF k \in DOMAIN Head(rounds).key_hold_times
        THEN Head(rounds).key_hold_times[k] ELSE << >>)
       \o ConcatHolds(Tail(rounds), k)

RECURSIVE SumOfHoldLens(_, _)
SumOfHoldLens(rounds, k) ==
  IF rounds = << >> THEN 0
  ELSE HoldCount(Head(rounds).key_hold_times, k) + SumOfHoldLens(Tail(rounds), k)

KeysOfRounds(rounds) ==
  { k \in KeyIds : \E i \in 1..Len(rounds) : k \in DOMAIN rounds[i].key_hold_times }

RECURSIVE SumSqDev(_, _, _)
\* the sum of (n*x - S)^2 over the values x of lst
SumSqDev(lst, n, S) ==
  IF lst = << >> THEN 0
  ELSE (n * Head(lst) - S) * (n * Head(lst) - S) + SumSqDev(Tail(lst), n, S)

\* sm is the count / mean / population stdev / min / max of the values of lst
IsSummaryOf(sm, lst) ==
  IF lst = << >> THEN sm = [ count |-> 0 ]
  ELSE LET n == Len(lst)
           S == SumSeq(lst)
       IN /\ DOMAIN sm = { "count", "mean", "stdev", "min", "max" }
          /\ sm.count = n
          /\ sm.mean[2] > 0 /\ sm.mean[1] * n = S * sm.mean[2]
          /\ sm.stdev.sqrt_of[2] > 0
          /\ sm.stdev.sqrt_of[1] * n * n * n = sm.stdev.sqrt_of[2] * SumSqDev(lst, n, S)
          /\ \E i \in 1..n : sm.min = lst[i]
          /\ \A i \in 1..n : sm.min <= lst[i]
          /\ \E i \in 1..n : sm.max = lst[i]
          /\ \A i \in 1..n : sm.max >= lst[i]

AggDone == a_pc = "done"
Aggregate == a_out[1].aggregate

\* C9: the aggregate of make_json_report is the summary of the single
\* concatenation of all rounds' values: intervals concatenated in round
\* order, and per key the hold lists of every round holding the key; a key
\* is in the aggregate iff it is in at least one round.
C9_AggregateIsSummaryOfConcatenation ==
  /\ a_loc.all_intervals = ConcatIntervals(SubSeq(a_rounds, 1, a_idx))
  /\ AggDone =>
       /\ IsSummaryOf(Aggregate.inter_key_intervals, ConcatIntervals(a_rounds))
       /\ Aggregate.inter_key_intervals = summarize_list(ConcatIntervals(a_rounds))
       /\ DOMAIN Aggregate.key_hold_times = KeysOfRounds(a_rounds)
       /\ \A k \in KeysOfRounds(a_rounds) :
            /\ IsSummaryOf(Aggregate.key_hold_times[k], ConcatHolds(a_rounds, k))
            /\ Aggregate.key_hold_times[k] = summarize_list(ConcatHolds(a_rounds, k))
            /\ Aggregate.key_hold_times[k].count = SumOfHoldLens(a_rounds, k)

\* two rounds: one key held in both, with different holds, and the other
\* key held in one round only
C9_Witness ==
  /\ AggDone
  /\ Len(a_rounds) = 2
  /\ \E k \in KeyIds :
       /\ k \in DOMAIN a_rounds[1].key_hold_times
       /\ k \in DOMAIN a_rounds[2].key_hold_times
       /\ a_rounds[1].key_hold_times[k] # a_rounds[2].key_hold_times[k]
       /\ Aggregate.key_hold_times[k].count = 2
  /\ \E k \in KeyIds :
       /\ k \in DOMAIN a_rounds[1].key_hold_times
       /\ k \notin DOMAIN a_rounds[2].key_hold_times

NoFeatures(r) == r.inter_key_intervals = << >> /\ r.key_hold_times = EmptyDict

\* C10: empty input gives no error outcome: zero rounds, or rounds of
\* empty buffers, aggregate to exactly {count: 0} for the intervals and an
\* empty key_hold_times mapping; a one-element list [x] is summarized as
\* {count: 1, mean: x, stdev: 0.0, min: x, max: x}.
C10_EmptyAndSingleton ==
  /\ compute_round_features(<< >>) = << << >>, EmptyDict >>
  /\ AggDone =>
       /\ (\A i \in 1..Len(a_rounds) : NoFeatures(a_rounds[i])) =>
             Aggregate = [ inter_key_intervals |-> [ count |-> 0 ],
                           key_hold_times |-> EmptyDict ]
       /\ ConcatIntervals(a_rounds) = << >> =>
             Aggregate.inter_key_intervals = [ count |-> 0 ]
       /\ \A x \in 0..AggMaxVal :
             /\ ConcatIntervals(a_rounds) = << x >> =>
                  Aggregate.inter_key_intervals =
                    [ count |-> 1, mean |-> << x, 1 >>,
                      stdev |-> [ sqrt_of |-> << 0, 1 >> ], min |-> x, max |-> x ]
             /\ \A k \in KeysOfRounds(a_rounds) :
                  ConcatHolds(a_rounds, k) = << x >> =>
                    Aggregate.key_hold_times[k] =
                      [ count |-> 1, mean |-> << x, 1 >>,
                        stdev |-> [ sqrt_of |-> << 0, 1 >> ], min |-> x, max |-> x ]

\* rounds were run, none of them recorded anything
C10_Witness ==
  /\ AggDone
  /\ Len(a_rounds) >= 2
  /\ \A i \in 1..Len(a_rounds) : NoFeatures(a_rounds[i])
  /\ a_out[1].rounds # << >>

\* ------------------------------------------------ the session (Spec)
\* the listener has appended to events and has yet to finish the update of
\* _down_timestamps
ListenerMidCallback == l_pc \in { "press_update", "release_check", "release_del" }

\* the foreground has emptied events and has yet to empty _down_timestamps
ClearMidway == pc = "clear_down"

\* C1: access to the shared buffer is mutually exclusive: clear() never
\* runs between the append and the bookkeeping update of a listener
\* callback, and no callback runs between the two steps of clear().
C1_BufferAccessMutuallyExclusive == ~(ListenerMidCallback /\ ClearMidway)

LastRound == all_rounds[Len(all_rounds)]

\* C2: the snapshot from which round N's features are extracted holds no
\* event that was in the buffer during an earlier round.
C2_SnapshotHoldsOnlyOwnRound ==
  round_events # None =>
    \A i \in 1..Len(round_events[1]) :
       round_events[1][i].born = LastRound.round_index

\* round 2 has been extracted from a non-empty snapshot, and of the two
\* events delivered one is gone from the buffer: clear() removed it
C2_Witness ==
  /\ Len(all_rounds) = 2
  /\ round_events # None /\ Len(round_events[1]) >= 1
  /\ l_pc = "idle" /\ n_callbacks >= 2
  /\ events = round_events[1]
  /\ Len(events) < n_callbacks

LoopLeft == pc \in { "finally", "report", "done" }

\* the loop was left by KeyboardInterrupt, not by running out of rounds
Interrupted == LoopLeft /\ Len(all_rounds) < NumRounds

\* C11: whenever the round loop is left, by interruption or not, the
\* listener is eventually stopped and the report eventually written; the
\* listener is stopped before the report is written; the report holds
\* exactly the RoundResults appended before the loop was left.
C11_InterruptStopsListenerThenReports ==
  /\ [](pc \in { "report", "done" } => ~l_running)
  /\ [](report # None =>
          /\ ~l_running
          /\ Len(report[1].rounds) = Len(all_rounds)
          /\ \A i \in 1..Len(all_rounds) : report[1].rounds[i] = all_rounds[i])
  /\ [][LoopLeft => all_rounds' = all_rounds]_vars
  /\ [][(pc # "copy" /\ pc' = "finally") => all_rounds' = all_rounds]_vars
  /\ ((pc = "finally") ~> (~l_running))
  /\ ((pc = "finally") ~> (report # None))

\* interrupted during round 2 with an event in the buffer: the report
\* holds round 1 only
C11_Witness ==
  /\ pc = "done"
  /\ Interrupted
  /\ Len(all_rounds) = 1 /\ round_idx = 2
  /\ events # << >>
  /\ Len(report[1].rounds) = 1

\* ------------------------------------- make_json_report twice (SpecFold)
\* the lists of the RoundResults are the first Len(h_input) of the heap
InputListsUnchanged ==
  /\ Len(h_heap) >= Len(h_input)
  /\ \A a \in 1..Len(h_input) : h_heap[a] = h_input[a]

\* C12: make_json_report run twice on the same RoundResults returns the
\* same aggregate both times, and no list of any RoundResult, nor any other
\* field, is changed by running it.
C12_AggregationIsPureFold ==
  /\ [](InputListsUnchanged)
  /\ [][h_rounds' = h_rounds]_vars
  /\ [](Len(h_out) = 2 => h_out[1] = h_out[2])
  /\ [](Len(h_out) >= 1 =>
          /\ Len(h_out[1].rounds) = Len(h_rounds)
          /\ \A i \in 1..Len(h_rounds) :
                h_out[1].rounds[i] = asdict_deep(h_input, h_rounds[i]))

\* both calls have returned; a key is held in both rounds, so the second
\* round's holds were appended to a list that began with the first round's
C12_Witness ==
  /\ h_pc = "done" /\ Len(h_out) = 2
  /\ Len(h_rounds) = 2
  /\ \E k \in KeyIds :
        /\ k \in DOMAIN h_rounds[1].key_hold_times
        /\ k \in DOMAIN h_rounds[2].key_hold_times
        /\ h_out[2].aggregate.key_hold_times[k].count = 2
  /\ h_rounds[1].inter_key_intervals # h_rounds[2].inter_key_intervals


\* the events of the buffer and of the last snapshot taken from it
SeenEvents ==
  { events[i] : i \in 1..Len(events) } \cup
  (IF round_events = None THEN {}
   ELSE { round_events[1][i] : i \in 1..Len(round_events[1]) })

\* the key ids under which the RoundResults group their holds
HoldKeyIds == UNION { DOMAIN all_rounds[i].key_hold_times : i \in 1..Len(all_rounds) }

\* C13: no step of on_press, on_release, clear() or the round loop changes
\* the salt or the anonymize flag; every event of every round carries the
\* id made from its raw key label and the one salt of the session, hence
\* two events of the same label carry the same id; with anonymization
\* disabled the id is the raw label; the keys under which RoundResults
\* group holds are such ids.
C13_SaltFixedSoKeyIdsStable ==
  /\ [][salt' = salt /\ anonymize' = anonymize]_vars
  /\ [](\A e \in SeenEvents :
          e.key_hash = IF anonymize
                       THEN sha256_hexdigest(salt \o "::" \o e.label)
                       ELSE e.label)
  /\ [](\A e1, e2 \in SeenEvents : e1.label = e2.label => e1.key_hash = e2.key_hash)
  /\ [](\A k \in HoldKeyIds \cup DOMAIN _down_timestamps :
          \E n \in KeyNames :
             k = IF anonymize THEN sha256_hexdigest(salt \o "::" \o n) ELSE n)

\* the same key was pressed in round 1 and again in round 2, under
\* anonymization: round 1's snapshot and round 2's buffer hold its id
C13_Witness ==
  /\ anonymize /\ round_idx = 2 /\ round_events # None
  /\ \E i \in 1..Len(round_events[1]), j \in 1..Len(events) :
        /\ round_events[1][i].born = 1 /\ events[j].born = 2
        /\ round_events[1][i].label = events[j].label
        /\ round_events[1][i].key_hash = events[j].key_hash
        /\ events[j].key_hash # events[j].label


\* C14: every RoundResult of the round loop has duration = end_time -
\* start_time, and the duration is >= 0 (the clock never goes back between
\* the reading of line 269 and the reading of line 271).
C14_DurationIsEndMinusStart ==
  \A i \in 1..Len(all_rounds) :
     /\ all_rounds[i].duration = all_rounds[i].end_time - all_rounds[i].start_time
     /\ all_rounds[i].duration >= 0

\* a round whose two clock readings differ, after a round whose readings
\* were equal
C14_Witness ==
  /\ Len(all_rounds) = 2
  /\ all_rounds[1].duration = 0
  /\ all_rounds[2].start_time < all_rounds[2].end_time
  /\ all_rounds[2].duration > 0


\* no round is active: the foreground is between a round's snapshot (or
\* the start of the session) and the completion of the next clear()
NoRoundActive == pc \in { "wait_start", "clear_events", "clear_down" }

\* C15: while no round is active recording is off, so a callback delivered
\* then appends nothing: until the first round's clear() has completed the
\* buffer is empty, and no step taken while no round is active makes the
\* buffer longer (so nothing delivered then can reach a RoundResult).
C15_NoAppendWhileNoRoundActive ==
  /\ []((NoRoundActive /\ round_idx = 1) => events = << >>)
  /\ [][NoRoundActive => Len(events') <= Len(events)]_vars


\* C16: in every reachable state the buffer's events are in non-decreasing
\* timestamp order, whatever the interleaving of clear() with the one
\* listener thread (the clock's readings never decrease).
C16_BufferInTimestampOrder ==
  \A i, j \in 1..Len(events) :
     i < j => events[i].timestamp <= events[j].timestamp

\* round 2's clear() has run and the buffer has grown again, by two events
\* read at different clock values
C16_Witness ==
  /\ round_idx = 2 /\ pc = "typing"
  /\ Len(events) = 2
  /\ events[1].timestamp < events[2].timestamp


\* C17: a RoundResult, once appended, is changed by no later step (listener
\* callbacks, clear(), later rounds, the report): every step leaves the
\* RoundResults already in the list as they are; the list holds one
\* RoundResult per round completed, the i-th with round_index i.
C17_RoundResultAppendedOnceThenFixed ==
  /\ [][/\ Len(all_rounds') >= Len(all_rounds)
        /\ \A i \in 1..Len(all_rounds) : all_rounds'[i] = all_rounds[i]]_vars
  /\ [](\A i, j \in 1..Len(all_rounds) :
          all_rounds[i].round_index = all_rounds[j].round_index => i = j)
  /\ [](\A i \in 1..Len(all_rounds) : all_rounds[i].round_index = i)
  /\ [](Len(all_rounds) \in { round_idx - 1, round_idx })

\* two rounds of different duration were recorded, round 2's clear() and a
\* callback ran after round 1's RoundResult was appended, and the report
\* has been written
C17_Witness ==
  /\ pc = "done" /\ report # None
  /\ Len(all_rounds) = 2
  /\ all_rounds[1].duration # all_rounds[2].duration
  /\ events # << >> /\ events[1].born = 2
  /\ n_callbacks = 2 /\ Len(events) = 1


\* the key ids a callback of this session can produce
SessionKeyIds == { _hash_key(anonymize, salt, n) : n \in KeyNames }

\* _down_timestamps holds exactly the keys whose most recent buffered event
\* is a Down, each with that Down's timestamp, and has the key set of the
\* extractor's open-press map after the same buffer
BookkeepingAgrees ==
  /\ \A k \in SessionKeyIds \cup DOMAIN _down_timestamps :
        /\ k \in DOMAIN _down_timestamps <=> OpenPress(events, k) # None
        /\ k \in DOMAIN _down_timestamps => OpenPress(events, k) = Some(_down_timestamps[k])
  /\ DOMAIN _down_timestamps = DOMAIN RunLoop(InitLocals, events, 1).down_map

\* C18: the open-press bookkeeping agrees with the buffer in every state
\* reached by interleaving clear() with listener callbacks; stated for the
\* states of a round (clear() has returned, the snapshot is yet to be
\* taken) in which no callback is midway, where it is weakest.
C18_BookkeepingAgreesWithBuffer ==
  (l_pc = "idle" /\ pc \in { "start", "typing", "copy" }) => BookkeepingAgrees

====
